---- MODULE Spec2Model ----
(***************************************************************************)
(* Model of bookstore_manager.py: a console sales ledger over three        *)
(* SQLite tables (member, book, sale).  The state is the committed content *)
(* of the database file, the AUTOINCREMENT counter of the sale table, the  *)
(* position of the interactive session (at the menu prompt, inside a call  *)
(* of add_sale, inside one of the input loops of update_sale and           *)
(* delete_sale, or back from an operation), the arguments and locals held  *)
(* there, the last thing returned or printed, and how many times in a row  *)
(* the program was started with no menu option taken in between.           *)
(***************************************************************************)
EXTENDS Integers, Sequences, FiniteSets, TLC

VARIABLES schema, member, book, sale, seq, pc, frame, result, idle_runs

vars == <<schema, member, book, sale, seq, pc, frame, result, idle_runs>>

(***************************************************************************)
(* Bounds and input alphabets of the model.                                *)
(***************************************************************************)
\* How many sale rows beyond the seeded ones the sessions may insert.
MaxNewSales == 2

\* How many times in a row the program is started on the same database file
\* without any menu option being taken in between.
MaxRuns == 2

\* Arguments handed to add_sale.  Quantities are positive, as the quantity
\* prompt of main() makes them; the discount is any integer, since add_sale
\* is also callable on its own and does not look at the discount's sign.
MidInputs == {"M001", "M999"}
BidInputs == {"B001", "B999"}
QtyInputs == {2, 50, 51}
DiscountArgs == {-5, 100}
DateInputs == {"2024-02-01"}

\* Lines typed at the prompts of update_sale / delete_sale, as sequences of
\* characters.
ChoiceInputs ==
    { <<>>, <<"a">>, <<"0">>, <<"9">>, <<"0", "2">>,
      <<"1">>, <<"2">>, <<"3">>, <<"4">>, <<"5">>, <<"6">> }
DiscountInputs == { <<>>, <<"a">>, <<"-", "5">>, <<"5", "0">> }

\* Where the storage engine raises sqlite3.DatabaseError inside a
\* `with conn:` block: nowhere, at the first statement, at the second.
Faults == {"none", "first", "second"}

(***************************************************************************)
(* Python string conversions used by the code.                             *)
(***************************************************************************)
Digits == {"0", "1", "2", "3", "4", "5", "6", "7", "8", "9"}

DigitVal(c) ==
    CASE c = "0" -> 0 [] c = "1" -> 1 [] c = "2" -> 2 [] c = "3" -> 3
      [] c = "4" -> 4 [] c = "5" -> 5 [] c = "6" -> 6 [] c = "7" -> 7
      [] c = "8" -> 8 [] c = "9" -> 9

DigitChar(d) ==
    CASE d = 0 -> "0" [] d = 1 -> "1" [] d = 2 -> "2" [] d = 3 -> "3"
      [] d = 4 -> "4" [] d = 5 -> "5" [] d = 6 -> "6" [] d = 7 -> "7"
      [] d = 8 -> "8" [] d = 9 -> "9"

\* str.isdigit(): non-empty and every character a digit.
isdigit(s) == Len(s) > 0 /\ \A i \in 1..Len(s) : s[i] \in Digits

RECURSIVE DigitsValue(_)
DigitsValue(s) ==
    IF s = <<>> THEN 0
    ELSE 10 * DigitsValue(SubSeq(s, 1, Len(s) - 1)) + DigitVal(s[Len(s)])

\* int(s): an optional sign followed by digits; anything else raises
\* ValueError (ok = FALSE).
int(s) ==
    IF isdigit(s) THEN [ok |-> TRUE, val |-> DigitsValue(s)]
    ELSE IF Len(s) > 1 /\ s[1] \in {"-", "+"} /\ isdigit(Tail(s))
         THEN [ok |-> TRUE,
               val |-> IF s[1] = "-" THEN 0 - DigitsValue(Tail(s))
                       ELSE DigitsValue(Tail(s))]
         ELSE [ok |-> FALSE, val |-> 0]

RECURSIVE NatStr(_)
NatStr(n) ==
    IF n < 10 THEN <<DigitChar(n)>>
    ELSE Append(NatStr(n \div 10), DigitChar(n % 10))

\* str(n) of an integer.
str(n) == IF n < 0 THEN <<"-">> \o NatStr(0 - n) ELSE NatStr(n)

(***************************************************************************)
(* The rows initialize_db inserts.                                         *)
(***************************************************************************)
SeedMembers ==
    << [mid |-> "M001", mname |-> "Alice", mphone |-> "0912-345678",
        memail |-> "alice@example.com"],
       [mid |-> "M002", mname |-> "Bob", mphone |-> "0923-456789",
        memail |-> "bob@example.com"],
       [mid |-> "M003", mname |-> "Cathy", mphone |-> "0934-567890",
        memail |-> "cathy@example.com"] >>

SeedBooks ==
    << [bid |-> "B001", btitle |-> "Python Programming",
        bprice |-> 600, bstock |-> 50],
       [bid |-> "B002", btitle |-> "Data Science Basics",
        bprice |-> 800, bstock |-> 30],
       [bid |-> "B003", btitle |-> "Machine Learning Guide",
        bprice |-> 1200, bstock |-> 20] >>

SeedSales ==
    << [sid |-> 1, sdate |-> "2024-01-15", mid |-> "M001", bid |-> "B001",
        sqty |-> 2, sdiscount |-> 100, stotal |-> 1100],
       [sid |-> 2, sdate |-> "2024-01-16", mid |-> "M002", bid |-> "B002",
        sqty |-> 1, sdiscount |-> 50, stotal |-> 750],
       [sid |-> 3, sdate |-> "2024-01-17", mid |-> "M001", bid |-> "B003",
        sqty |-> 3, sdiscount |-> 200, stotal |-> 3400],
       [sid |-> 4, sdate |-> "2024-01-18", mid |-> "M003", bid |-> "B001",
        sqty |-> 1, sdiscount |-> 0, stotal |-> 600] >>

(***************************************************************************)
(* SQL statements as operators on tables (sequences of rows).              *)
(***************************************************************************)
Rows(t) == { t[i] : i \in 1..Len(t) }

\* Where a new row goes: the sale table has an INTEGER PRIMARY KEY and is
\* stored in sid order; member and book rows are stored in insertion order.
InsertRow(t, key, r) ==
    IF key = "sid"
    THEN SelectSeq(t, LAMBDA x : x.sid < r.sid) \o <<r>>
           \o SelectSeq(t, LAMBDA x : ~(x.sid < r.sid))
    ELSE Append(t, r)

\* Variant: a plain INSERT, which does not look for the primary key.
InsertAlways(t, key, r) == InsertRow(t, key, r)

\* INSERT OR IGNORE: a row whose primary key is already present is skipped.
InsertOrIgnore(t, key, r) ==
    IF \E x \in Rows(t) : x[key] = r[key] THEN t ELSE InsertRow(t, key, r)

RECURSIVE InsertOrIgnoreAll(_, _, _)
InsertOrIgnoreAll(t, key, rows) ==
    IF rows = <<>> THEN t
    ELSE InsertOrIgnoreAll(InsertOrIgnore(t, key, Head(rows)), key, Tail(rows))

Max(a, b) == IF a > b THEN a ELSE b

RECURSIVE MaxSid(_)
MaxSid(rows) ==
    IF rows = <<>> THEN 0 ELSE Max(Head(rows).sid, MaxSid(Tail(rows)))

\* ORDER BY sale.sid (insertion sort on the sid column).
RECURSIVE SortBySid(_)
SortBySid(t) ==
    IF t = <<>> THEN <<>>
    ELSE LET rest == SortBySid(Tail(t))
             h == Head(t)
         IN SelectSeq(rest, LAMBDA x : x.sid < h.sid) \o <<h>>
              \o SelectSeq(rest, LAMBDA x : ~(x.sid < h.sid))

\* Variant: the WHERE clause is missing, any member row answers the lookup.
SelectAnyMember(mid) == member

\* SELECT 1 FROM member WHERE mid = ?
SelectMember(mid) == SelectSeq(member, LAMBDA m : m.mid = mid)

\* SELECT bprice, bstock FROM book WHERE bid = ?
SelectBook(bid) == SelectSeq(book, LAMBDA b : b.bid = bid)

\* fetchone() is None
IsNone(rows) == rows = <<>>

\* Variant: the stock check is missing.
StockNeverInsufficient(sqty, stock) == FALSE

\* if sqty > stock
StockInsufficient(sqty, stock) == sqty > stock

\* Variant: the discount is taken off the unit price, not off the amount.
ComputeTotalPerUnit(price, sqty, sdiscount) == (price - sdiscount) * sqty

\* total = price * sqty - sdiscount
ComputeTotal(price, sqty, sdiscount) == price * sqty - sdiscount

\* Variant: the message reports the requested quantity.
InsufficientTextQty(sqty, stock) == str(sqty)

\* The payload of the "insufficient stock" message.
InsufficientText(sqty, stock) == str(stock)

\* INSERT INTO sale (sdate, mid, bid, sqty, sdiscount, stotal): the sid is
\* assigned by AUTOINCREMENT, one more than the largest sid ever used.
InsertSale(t, counter, sdate, mid, bid, sqty, sdiscount, total) ==
    InsertRow(t, "sid",
              [sid |-> counter + 1, sdate |-> sdate, mid |-> mid, bid |-> bid,
               sqty |-> sqty, sdiscount |-> sdiscount, stotal |-> total])

\* Variant: UPDATE book SET bstock = bstock - ? without the WHERE clause.
DecrementEveryStock(t, bid, sqty) ==
    [i \in 1..Len(t) |-> [t[i] EXCEPT !.bstock = @ - sqty]]

\* UPDATE book SET bstock = bstock - ? WHERE bid = ?
DecrementStock(t, bid, sqty) ==
    [i \in 1..Len(t) |->
        IF t[i].bid = bid THEN [t[i] EXCEPT !.bstock = @ - sqty] ELSE t[i]]

\* Variant: UPDATE sale SET sdiscount = ?, stotal = ? without the WHERE
\* clause.
UpdateEverySaleRow(t, sid, disc, new_total) ==
    [i \in 1..Len(t) |->
        [t[i] EXCEPT !.sdiscount = disc, !.stotal = new_total]]

\* UPDATE sale SET sdiscount = ?, stotal = ? WHERE sid = ?
UpdateSaleRow(t, sid, disc, new_total) ==
    [i \in 1..Len(t) |->
        IF t[i].sid = sid
        THEN [t[i] EXCEPT !.sdiscount = disc, !.stotal = new_total]
        ELSE t[i]]

\* Variant: the sale identifier is taken for a position in the table.
DeleteSaleAtPosition(t, sid) ==
    LET keep == { i \in 1..Len(t) : i # sid }
    IN [j \in 1..Cardinality(keep) |->
          t[CHOOSE i \in keep : Cardinality({k \in keep : k < i}) = j - 1]]

\* DELETE FROM sale WHERE sid = ?
DeleteSaleRow(t, sid) == SelectSeq(t, LAMBDA x : x.sid # sid)

\* Variant: the block's work is committed even when a statement raised.
ExitWithoutRollback(before, reached, raised) == reached

\* Leaving a `with conn:` block: rollback when the block raised, commit of
\* what the block did otherwise.  `before` is the database when the block
\* was entered, `reached` what the open transaction holds when it is left.
ExitWith(before, reached, raised) == IF raised THEN before ELSE reached

\* The database as one value, for the transaction operators.
Db == [sale |-> sale, book |-> book, seq |-> seq]

\* The listing query of update_sale / delete_sale:
\* SELECT sale.sid, member.mname, sale.sdate FROM sale JOIN member ...
ListSales ==
    LET joined == SelectSeq(SortBySid(sale),
                            LAMBDA x : \E m \in Rows(member) : m.mid = x.mid)
    IN [i \in 1..Len(joined) |->
          [sid |-> joined[i].sid,
           mname |-> (CHOOSE m \in Rows(member) : m.mid = joined[i].mid).mname,
           sdate |-> joined[i].sdate]]

\* SELECT book.bprice, sale.sqty FROM sale JOIN book ... WHERE sale.sid = ?
SelectPriceQty(sid) ==
    LET rows == SelectSeq(sale, LAMBDA x : x.sid = sid)
        s == Head(rows)
        b == Head(SelectSeq(book, LAMBDA y : y.bid = s.bid))
    IN [bprice |-> b.bprice, sqty |-> s.sqty]

\* f"{n:,}": digits in groups of three.
RECURSIVE GroupDigits(_)
GroupDigits(ds) ==
    IF Len(ds) <= 3 THEN ds
    ELSE GroupDigits(SubSeq(ds, 1, Len(ds) - 3)) \o <<",">>
           \o SubSeq(ds, Len(ds) - 2, Len(ds))

FormatThousands(n) ==
    IF n < 0 THEN <<"-">> \o GroupDigits(NatStr(0 - n))
    ELSE GroupDigits(NatStr(n))

NoArgs == [sdate |-> "", mid |-> "", bid |-> "", sqty |-> 0, sdiscount |-> 0]

NoFrame == [args |-> NoArgs, sales |-> <<>>, sid |-> 0, price |-> 0, qty |-> 0]

Out(op, ok, kind, text) == [op |-> op, ok |-> ok, kind |-> kind, text |-> text]

TypeOK ==
    /\ schema \subseteq {"member", "book", "sale"}
    /\ pc \in {"start", "menu", "returned", "add_sale", "update_choice",
               "update_discount", "delete_choice"}
    /\ seq \in Nat
    /\ idle_runs \in 0..MaxRuns

Init ==
    /\ schema = {}
    /\ member = <<>>
    /\ book = <<>>
    /\ sale = <<>>
    /\ seq = 0
    /\ pc = "start"
    /\ frame = NoFrame
    /\ result = Out("none", TRUE, "none", <<>>)
    /\ idle_runs = 0

(***************************************************************************)
(* main(): connect and bootstrap, then the menu loop.                      *)
(***************************************************************************)
initialize_db ==
    /\ pc = "start"
    /\ idle_runs < MaxRuns
    /\ idle_runs' = idle_runs + 1
    /\ schema' = schema \cup {"member", "book", "sale"}
    /\ member' = InsertOrIgnoreAll(member, "mid", SeedMembers)
    /\ book' = InsertOrIgnoreAll(book, "bid", SeedBooks)
    /\ sale' = InsertOrIgnoreAll(sale, "sid", SeedSales)
    /\ seq' = Max(seq, MaxSid(sale'))
    /\ pc' = "returned"
    /\ frame' = NoFrame
    /\ result' = Out("initialize_db", TRUE, "none", <<>>)

\* The top of the menu loop: the menu is printed and a choice awaited.
show_menu ==
    /\ pc = "returned"
    /\ pc' = "menu"
    /\ result' = Out("menu", TRUE, "none", <<>>)
    /\ UNCHANGED <<schema, member, book, sale, seq, frame, idle_runs>>

\* Enter or option 5 at the menu: the process ends; the database file stays.
exit ==
    /\ pc = "menu"
    /\ pc' = "start"
    /\ UNCHANGED <<schema, member, book, sale, seq, frame, result, idle_runs>>

\* Whether a call gets past the lookups and the stock check, to the writes.
ReachesWrites(mid, bid, sqty) ==
    /\ ~IsNone(SelectMember(mid))
    /\ ~IsNone(SelectBook(bid))
    /\ ~StockInsufficient(sqty, Head(SelectBook(bid)).bstock)

\* add_sale is called: its parameters are bound.  (The model stops calling
\* with arguments that would insert once MaxNewSales rows were inserted.)
call_add_sale(sdate, mid, bid, sqty, sdiscount) ==
    /\ pc = "menu"
    /\ ReachesWrites(mid, bid, sqty) => seq < MaxSid(SeedSales) + MaxNewSales
    /\ pc' = "add_sale"
    /\ frame' = [NoFrame EXCEPT !.args = [sdate |-> sdate, mid |-> mid,
                                          bid |-> bid, sqty |-> sqty,
                                          sdiscount |-> sdiscount]]
    /\ idle_runs' = 0
    /\ UNCHANGED <<schema, member, book, sale, seq, result>>

\* The body of add_sale, up to its return.
add_sale(fault) ==
    /\ pc = "add_sale"
    /\ LET sdate == frame.args.sdate
           mid == frame.args.mid
           bid == frame.args.bid
           sqty == frame.args.sqty
           sdiscount == frame.args.sdiscount
       IN
       IF IsNone(SelectMember(mid)) \/ IsNone(SelectBook(bid))
       THEN /\ result' = Out("add_sale", FALSE, "InvalidReference", <<>>)
            /\ UNCHANGED <<sale, book, seq>>
       ELSE LET book_row == Head(SelectBook(bid))
                price == book_row.bprice
                stock == book_row.bstock
            IN IF StockInsufficient(sqty, stock)
               THEN /\ result' = Out("add_sale", FALSE, "InsufficientStock",
                                     InsufficientText(sqty, stock))
                    /\ UNCHANGED <<sale, book, seq>>
               ELSE LET total == ComputeTotal(price, sqty, sdiscount)
                        tx1 == [Db EXCEPT
                                  !.sale = InsertSale(sale, seq, sdate, mid,
                                                      bid, sqty, sdiscount,
                                                      total),
                                  !.seq = seq + 1]
                        tx2 == [tx1 EXCEPT
                                  !.book = DecrementStock(book, bid, sqty)]
                        reached == CASE fault = "first" -> Db
                                     [] fault = "second" -> tx1
                                     [] OTHER -> tx2
                        after == ExitWith(Db, reached, fault # "none")
                    IN /\ result' =
                            IF fault = "none"
                            THEN Out("add_sale", TRUE, "Total", str(total))
                            ELSE Out("add_sale", FALSE, "StorageError", <<>>)
                       /\ seq' = after.seq
                       /\ book' = after.book
                       /\ sale' = after.sale
    /\ pc' = "returned"
    /\ frame' = NoFrame
    /\ UNCHANGED <<schema, member, idle_runs>>

print_sale_report ==
    /\ pc = "menu"
    /\ LET rows == SelectSeq(SortBySid(sale),
                     LAMBDA x : /\ \E m \in Rows(member) : m.mid = x.mid
                                /\ \E b \in Rows(book) : b.bid = x.bid)
       IN result' = IF rows = <<>>
                    THEN Out("print_sale_report", TRUE, "NoRecords", <<>>)
                    ELSE Out("print_sale_report", TRUE, "Report",
                             FormatThousands(rows[Len(rows)].stotal))
    /\ pc' = "returned"
    /\ idle_runs' = 0
    /\ UNCHANGED <<schema, member, book, sale, seq, frame>>

(***************************************************************************)
(* update_sale: listing, the choice loop, the discount loop, the write.    *)
(***************************************************************************)
update_sale_list ==
    /\ pc = "menu"
    /\ IF ListSales = <<>>
       THEN /\ result' = Out("update_sale", FALSE, "NoRecords", <<>>)
            /\ pc' = "returned"
            /\ UNCHANGED frame
       ELSE /\ result' = Out("update_sale", TRUE, "Listing", <<>>)
            /\ pc' = "update_choice"
            /\ frame' = [NoFrame EXCEPT !.sales = ListSales]
    /\ idle_runs' = 0
    /\ UNCHANGED <<schema, member, book, sale, seq>>

\* Index chosen by a line of input, 0 when the line is rejected.
ChosenIndex(choice, sales) ==
    IF ~isdigit(choice) THEN 0
    ELSE LET idx == int(choice).val
         IN IF idx < 1 \/ idx > Len(sales) THEN 0 ELSE idx

update_sale_choice(choice) ==
    /\ pc = "update_choice"
    /\ IF choice = <<>>
       THEN /\ pc' = "returned"
            /\ frame' = NoFrame
            /\ result' = Out("update_sale", FALSE, "Cancelled", <<>>)
       ELSE IF ChosenIndex(choice, frame.sales) = 0
       THEN /\ result' = Out("update_sale", FALSE, "InvalidInput", <<>>)
            /\ UNCHANGED <<pc, frame>>
       ELSE LET sid == frame.sales[ChosenIndex(choice, frame.sales)].sid
                row2 == SelectPriceQty(sid)
            IN /\ frame' = [frame EXCEPT !.sid = sid, !.price = row2.bprice,
                                         !.qty = row2.sqty]
               /\ pc' = "update_discount"
               /\ result' = Out("update_sale", TRUE, "Selected", str(sid))
    /\ UNCHANGED <<schema, member, book, sale, seq, idle_runs>>

\* The discount loop's verdict on a line of input.
DiscountAccepted(new_discount) ==
    int(new_discount).ok /\ ~(int(new_discount).val < 0)

update_sale_discount(new_discount, fault) ==
    /\ pc = "update_discount"
    /\ IF ~DiscountAccepted(new_discount)
       THEN /\ result' = Out("update_sale", FALSE, "InvalidInput", <<>>)
            /\ UNCHANGED <<sale, pc, frame>>
       ELSE LET disc == int(new_discount).val
                new_total == ComputeTotal(frame.price, frame.qty, disc)
                tx1 == [Db EXCEPT !.sale = UpdateSaleRow(sale, frame.sid,
                                                         disc, new_total)]
                reached == IF fault = "first" THEN Db ELSE tx1
                after == ExitWith(Db, reached, fault # "none")
            IN /\ sale' = after.sale
               /\ pc' = "returned"
               /\ frame' = NoFrame
               /\ result' =
                    IF fault = "none"
                    THEN Out("update_sale", TRUE, "Updated",
                             str(frame.sid) \o <<" ">>
                               \o FormatThousands(new_total))
                    ELSE Out("update_sale", FALSE, "StorageError", <<>>)
    /\ UNCHANGED <<schema, member, book, seq, idle_runs>>

(***************************************************************************)
(* delete_sale: listing, the choice loop, the delete.                      *)
(***************************************************************************)
delete_sale_list ==
    /\ pc = "menu"
    /\ IF ListSales = <<>>
       THEN /\ result' = Out("delete_sale", FALSE, "NoRecords", <<>>)
            /\ pc' = "returned"
            /\ UNCHANGED frame
       ELSE /\ result' = Out("delete_sale", TRUE, "Listing", <<>>)
            /\ pc' = "delete_choice"
            /\ frame' = [NoFrame EXCEPT !.sales = ListSales]
    /\ idle_runs' = 0
    /\ UNCHANGED <<schema, member, book, sale, seq>>

delete_sale_choice(choice, fault) ==
    /\ pc = "delete_choice"
    /\ IF choice = <<>>
       THEN /\ pc' = "returned"
            /\ frame' = NoFrame
            /\ result' = Out("delete_sale", FALSE, "Cancelled", <<>>)
            /\ UNCHANGED sale
       ELSE IF ChosenIndex(choice, frame.sales) = 0
       THEN /\ result' = Out("delete_sale", FALSE, "InvalidInput", <<>>)
            /\ UNCHANGED <<sale, pc, frame>>
       ELSE LET sid == frame.sales[ChosenIndex(choice, frame.sales)].sid
                tx1 == [Db EXCEPT !.sale = DeleteSaleRow(sale, sid)]
                reached == IF fault = "first" THEN Db ELSE tx1
                after == ExitWith(Db, reached, fault # "none")
            IN /\ sale' = after.sale
               /\ pc' = "returned"
               /\ frame' = NoFrame
               /\ result' =
                    IF fault = "none"
                    THEN Out("delete_sale", TRUE, "Deleted", str(sid))
                    ELSE Out("delete_sale", FALSE, "StorageError", <<>>)
    /\ UNCHANGED <<schema, member, book, seq, idle_runs>>

(***************************************************************************)
(* Specifications.  Spec: the storage engine never raises.  SpecFault: a   *)
(* statement inside a `with conn:` block may raise sqlite3.DatabaseError.  *)
(***************************************************************************)
AddSaleCall ==
    \E sdate \in DateInputs, mid \in MidInputs, bid \in BidInputs,
       sqty \in QtyInputs, sdiscount \in DiscountArgs :
        call_add_sale(sdate, mid, bid, sqty, sdiscount)

UpdateChoice == \E choice \in ChoiceInputs : update_sale_choice(choice)

UpdateDiscount(fault) ==
    \E new_discount \in DiscountInputs :
        update_sale_discount(new_discount, fault)

DeleteChoice(fault) ==
    \E choice \in ChoiceInputs : delete_sale_choice(choice, fault)

Next ==
    \/ initialize_db
    \/ show_menu
    \/ exit
    \/ AddSaleCall
    \/ add_sale("none")
    \/ print_sale_report
    \/ update_sale_list
    \/ UpdateChoice
    \/ UpdateDiscount("none")
    \/ delete_sale_list
    \/ DeleteChoice("none")

NextFault ==
    \/ initialize_db
    \/ show_menu
    \/ exit
    \/ AddSaleCall
    \/ \E fault \in Faults : add_sale(fault)
    \/ print_sale_report
    \/ update_sale_list
    \/ UpdateChoice
    \/ \E fault \in Faults \ {"second"} : UpdateDiscount(fault)
    \/ delete_sale_list
    \/ \E fault \in Faults \ {"second"} : DeleteChoice(fault)

Spec == Init /\ [][Next]_vars

SpecFault == Init /\ [][NextFault]_vars

(***************************************************************************)
(* Properties.  The table lookups below read the tables directly and do    *)
(* not go through the operators the actions use.                           *)
(***************************************************************************)
MemberIds == { m.mid : m \in Rows(member) }
BookIds == { b.bid : b \in Rows(book) }
BookOf(bid) == CHOOSE b \in Rows(book) : b.bid = bid
SaleIds == { r.sid : r \in Rows(sale) }
SaleOf(sid) == CHOOSE r \in Rows(sale) : r.sid = sid

\* C1: a call of add_sale with an existing member id, an existing book id
\* and 0 < sqty <= the book's stock returns (True, str(total)) with
\* total = bprice * sqty - sdiscount, adds exactly one sale row, which
\* carries the call's arguments and that total, and lowers that book's stock
\* by exactly sqty while every other book row stays as it was.
C1_RecordSaleSucceeds ==
    [][LET sdate == frame.args.sdate
           mid == frame.args.mid
           bid == frame.args.bid
           sqty == frame.args.sqty
           sdiscount == frame.args.sdiscount
       IN
         ( /\ add_sale("none")
           /\ mid \in MemberIds
           /\ bid \in BookIds
           /\ 0 < sqty
           /\ sqty <= BookOf(bid).bstock )
         => LET total == BookOf(bid).bprice * sqty - sdiscount
                added == { r \in Rows(sale') : r.sid \notin SaleIds }
            IN /\ result'.op = "add_sale"
               /\ result'.ok
               /\ int(result'.text).ok
               /\ int(result'.text).val = total
               /\ Len(sale') = Len(sale) + 1
               /\ Rows(sale) \subseteq Rows(sale')
               /\ Cardinality(added) = 1
               /\ \A r \in added :
                    /\ r.stotal = total
                    /\ r.mid = mid /\ r.bid = bid /\ r.sdate = sdate
                    /\ r.sqty = sqty /\ r.sdiscount = sdiscount
               /\ Len(book') = Len(book)
               /\ \A i \in 1..Len(book) :
                    book'[i] =
                      IF book[i].bid = bid
                      THEN [book[i] EXCEPT !.bstock = book[i].bstock - sqty]
                      ELSE book[i]
    ]_vars

\* The example of the specification: add_sale("2024-02-01", "M001", "B001",
\* 2, 100) on the seeded tables returned "1100" and B001's stock is 48.
C1_Witness ==
    /\ result.op = "add_sale"
    /\ result.ok
    /\ result.text = <<"1", "1", "0", "0">>
    /\ \E b \in Rows(book) : b.bid = "B001" /\ b.bstock = 48
    /\ \E r \in Rows(sale) : r.sid = 5 /\ r.sqty = 2 /\ r.stotal = 1100

\* C2: in every reachable state every book's stock is >= 0.
C2_StockNonNegative == \A b \in Rows(book) : b.bstock >= 0

\* A sale has taken the whole stock of a book and a further sale of it was
\* refused.
C2_Witness ==
    /\ \E b \in Rows(book) : b.bid = "B001" /\ b.bstock = 0
    /\ result.op = "add_sale"
    /\ result.kind = "InsufficientStock"

\* C3: a call of add_sale whose member id matches no member row, or whose
\* book id matches no book row, returns the InvalidReference failure,
\* whatever the quantity, and leaves the sale table, the book table and the
\* AUTOINCREMENT counter unchanged.
C3_UnknownReferenceRejected ==
    [][\A fault \in Faults :
         LET mid == frame.args.mid
             bid == frame.args.bid
         IN
         ( /\ add_sale(fault)
           /\ (mid \notin MemberIds \/ bid \notin BookIds) )
         => /\ result'.op = "add_sale"
            /\ ~result'.ok
            /\ result'.kind = "InvalidReference"
            /\ sale' = sale
            /\ book' = book
            /\ seq' = seq
    ]_vars

\* add_sale was refused for an unknown member or book id.
C3_Witness ==
    /\ result.op = "add_sale"
    /\ result.kind = "InvalidReference"
    /\ sale = SeedSales
    /\ book = SeedBooks

\* C4: a call of add_sale with existing member and book ids and sqty greater
\* than the book's stock returns the InsufficientStock failure, whose message
\* carries the book's current stock, and leaves the sale table and the book
\* table unchanged.
C4_InsufficientStockRejected ==
    [][\A fault \in Faults :
         LET mid == frame.args.mid
             bid == frame.args.bid
             sqty == frame.args.sqty
         IN
         ( /\ add_sale(fault)
           /\ mid \in MemberIds
           /\ bid \in BookIds
           /\ sqty > BookOf(bid).bstock )
         => /\ result'.op = "add_sale"
            /\ ~result'.ok
            /\ result'.kind = "InsufficientStock"
            /\ int(result'.text).ok
            /\ int(result'.text).val = BookOf(bid).bstock
            /\ sale' = sale
            /\ book' = book
            /\ seq' = seq
    ]_vars

\* After a sale of 2 copies of B001, a sale of 50 was refused and the
\* message carries the stock 48.
C4_Witness ==
    /\ result.op = "add_sale"
    /\ result.kind = "InsufficientStock"
    /\ result.text = <<"4", "8">>
    /\ \E b \in Rows(book) : b.bid = "B001" /\ b.bstock = 48

\* C5: recording a sale is all-or-nothing.  A call of add_sale either leaves
\* the sale table, the book table and the AUTOINCREMENT counter as they were,
\* or adds one sale row and lowers the stock of that row's book by that
\* row's quantity; and when the storage raises at the INSERT or at the stock
\* UPDATE, add_sale returns the StorageError failure and tables and counter
\* are as before the call.
C5_RecordSaleAtomic ==
    [][\A fault \in Faults :
         add_sale(fault)
         => LET mid == frame.args.mid
                bid == frame.args.bid
                sqty == frame.args.sqty
                added == { r \in Rows(sale') : r.sid \notin SaleIds }
                nothing == sale' = sale /\ book' = book /\ seq' = seq
                both ==
                  /\ Cardinality(added) = 1
                  /\ Len(sale') = Len(sale) + 1
                  /\ Rows(sale) \subseteq Rows(sale')
                  /\ \A r \in added :
                       /\ r.bid = bid /\ r.sqty = sqty
                       /\ Len(book') = Len(book)
                       /\ \A i \in 1..Len(book) :
                            book'[i].bstock =
                              IF book[i].bid = r.bid
                              THEN book[i].bstock - r.sqty
                              ELSE book[i].bstock
                attempted ==
                  /\ mid \in MemberIds
                  /\ bid \in BookIds
                  /\ sqty <= BookOf(bid).bstock
            IN /\ nothing \/ both
               /\ (attempted /\ fault # "none")
                    => (result'.kind = "StorageError" /\ ~result'.ok
                        /\ nothing)
               /\ result'.ok => both
    ]_vars

\* The storage raised during add_sale after an earlier sale of 2 copies of
\* B001 had been recorded: the tables and the counter show the earlier sale
\* only.
C5_Witness ==
    /\ result.op = "add_sale"
    /\ result.kind = "StorageError"
    /\ SaleIds = {1, 2, 3, 4, 5}
    /\ \E b \in Rows(book) : b.bid = "B001" /\ b.bstock = 48
    /\ seq = 5

\* C6: when update_sale writes the new discount of the selected sale, that
\* sale's sdiscount becomes the new value and its stotal becomes
\* (bprice of its book) * (its sqty) - new discount; every other field of
\* the row, every other sale row and the book table are unchanged.
C6_UpdateDiscountFrame ==
    [][\A new_discount \in DiscountInputs :
         ( /\ update_sale_discount(new_discount, "none")
           /\ int(new_discount).ok
           /\ int(new_discount).val >= 0 )
         => LET d == int(new_discount).val
            IN /\ frame.sid \in SaleIds
               /\ Len(sale') = Len(sale)
               /\ \A i \in 1..Len(sale) :
                    sale'[i] =
                      IF sale[i].sid = frame.sid
                      THEN [sale[i] EXCEPT
                              !.sdiscount = d,
                              !.stotal = BookOf(sale[i].bid).bprice
                                           * sale[i].sqty - d]
                      ELSE sale[i]
               /\ book' = book
               /\ result'.kind = "Updated"
    ]_vars

\* Sale 3 (3 copies of B003 at 1200) was updated to discount 50: its total
\* is 3550 and the other seeded sales are as seeded.
C6_Witness ==
    /\ result.op = "update_sale"
    /\ result.kind = "Updated"
    /\ \E r \in Rows(sale) :
         r.sid = 3 /\ r.sdiscount = 50 /\ r.stotal = 3550 /\ r.sqty = 3
    /\ \E r \in Rows(sale) : r.sid = 1 /\ r.sdiscount = 100

\* C7: when delete_sale deletes the sale chosen from its listing, exactly
\* the row with that sale identifier disappears: the other sale rows are
\* unchanged and in place, and the book table (the stock of the deleted
\* sale's book included) is unchanged.
C7_DeleteFrame ==
    [][\A choice \in ChoiceInputs :
         ( /\ delete_sale_choice(choice, "none")
           /\ isdigit(choice)
           /\ int(choice).val \in 1..Len(frame.sales) )
         => LET sid == frame.sales[int(choice).val].sid
            IN /\ sid \in SaleIds
               /\ Len(sale') = Len(sale) - 1
               /\ Rows(sale') = Rows(sale) \ {SaleOf(sid)}
               /\ \A r \in Rows(sale') : r.sid # sid
               /\ book' = book
               /\ result'.kind = "Deleted"
    ]_vars

\* A sale of 2 copies of B001 was recorded as sale 5 and then deleted: the
\* seeded rows remain and B001's stock is still 48.
C7_Witness ==
    /\ result.op = "delete_sale"
    /\ result.kind = "Deleted"
    /\ result.text = <<"5">>
    /\ SaleIds = {1, 2, 3, 4}
    /\ \E b \in Rows(book) : b.bid = "B001" /\ b.bstock = 48

\* C8: initialize_db run again with no menu option taken since its
\* previous run
\* completes without error and leaves the schema, the member, book and sale
\* tables and the AUTOINCREMENT counter exactly as the previous run left
\* them.
C8_BootstrapIdempotent ==
    [][(initialize_db /\ idle_runs >= 1)
         => /\ result'.ok
            /\ schema' = schema
            /\ member' = member
            /\ book' = book
            /\ sale' = sale
            /\ seq' = seq
    ]_vars

\* The program was started twice in a row on a fresh database: the tables
\* hold the seed rows once.
C8_Witness ==
    /\ idle_runs = 2
    /\ pc = "returned"
    /\ result.op = "initialize_db"
    /\ member = SeedMembers
    /\ book = SeedBooks
    /\ sale = SeedSales

\* C9: every stored sale row has sdiscount >= 0, whatever integer discount
\* add_sale and update_sale were given.
C9_NoNegativeDiscountStored == \A r \in Rows(sale) : r.sdiscount >= 0

\* C10: every stored sale row has
\* stotal = (bprice of the book it references) * sqty - sdiscount.
C10_TotalDerived ==
    \A r \in Rows(sale) :
        /\ r.bid \in BookIds
        /\ r.stotal = BookOf(r.bid).bprice * r.sqty - r.sdiscount

\* A recorded sale had its discount updated and a seeded sale was deleted;
\* the remaining seeded sales are present.
C10_Witness ==
    /\ \E r \in Rows(sale) : r.sid = 5 /\ r.sdiscount = 50 /\ r.stotal = 1150
    /\ SaleIds = {1, 3, 4, 5}

====
